---- MODULE Spec2Model ----
(***************************************************************************)
(* hsd-axfr: AXFR zone transfer plugin.                                    *)
(*                                                                         *)
(*   Spec   the transfer requester: AXFRClient.query, AXFRQuery.exchange,  *)
(*          the socket handlers of AXFRQuery.init and the reassembly of    *)
(*          AXFRQuery.read, driven by Plugin.sendAXFR / loadMergeZone up   *)
(*          to the first record handed to the MessageWriter.               *)
(*   SpecV  AXFRValidator.verifyZone / verifyNSEC / verifyBitmap applied   *)
(*          to bounded zones.                                              *)
(*   SpecW  MessageWriter: writeRR, writeAll, flush, reset.                *)
(***************************************************************************)
EXTENDS Integers, Sequences, FiniteSets, TLC

VARIABLES
  cfg,       \* Plugin configuration: [n, disableMerge]
  sess,      \* sendAXFR session: [pc, err]
  index,     \* AXFRClient.index, the failover cursor (0-based)
  qpc,       \* position of AXFRClient.query: "idle", "attempt", "returned"
  i,         \* loop counter of AXFRClient.query
  server,    \* local variable `server` of AXFRClient.query (a host)
  q,         \* the AXFRQuery of the current attempt
  conn,      \* host the socket of the current attempt was connected to
  wire,      \* bytes sent by the server and not yet delivered in a 'data' event
  sent,      \* the messages the server sent on the current connection, in order
  log,       \* logger.warning calls of AXFRClient.query
  result,    \* value returned by AXFRClient.query
  mergeDB,   \* the Merge Result held by sendAXFR: [names, glue, nsecChain]
  transfer,  \* the MessageWriter: [answer, size, written]
  out,       \* messages handed to the write callback: [answer, size, ok]
  sockOpen,  \* whether the requester's socket is still registered (Plugin.write)
  todo,      \* records of a writeAll call not yet written
  submitted, \* every record passed to writeRR, in call order
  failed,    \* whether a flush has thrown
  flushes,   \* number of direct calls of flush
  vin,       \* input of verifyZone: a sequence of messages
  vres,      \* outcome of verifyZone
  rinfo,     \* the rinfo of the transfer request: [tcp, address]
  prefer,    \* Plugin.preferICANN
  store,     \* the local name tree: a sequence of entries [name, data, zone]
  iter,      \* entries (then chain names) sendAXFR has gone through
  warn,      \* logger.warning calls of pickRRs: [name, preferICANN]
  res,       \* the message sendAXFR returns: [code, answer]
  cq,        \* the queries of two sessions that share one AXFRClient
  old        \* the sendAXFR of the record-count-chunked plugin

vars == <<cfg, sess, index, qpc, i, server, q, conn, wire, sent, log, result, mergeDB,
          transfer, out, sockOpen, todo, submitted, failed, flushes, vin, vres,
          rinfo, prefer, store, iter, warn, res, cq, old>>

qvars == <<cfg, sess, index, qpc, i, server, q, conn, wire, sent, log, result,
           mergeDB>>
wvars == <<transfer, out, sockOpen, todo, submitted, failed, flushes>>
vvars == <<vin, vres>>
xvars == <<rinfo, prefer, store, iter, warn, res>>
cvars == <<cq>>
ovars == <<old>>

null == "null"

(***************************************************************************)
(* Record types (bns wire.types).                                          *)
(***************************************************************************)
A == 1
NS == 2
SOA == 6
AAAA == 28
RRSIG == 46
NSEC == 47
NSEC3 == 50

(***************************************************************************)
(* Bounds of the model.                                                    *)
(***************************************************************************)
NumServers == 3     \* at most this many configured servers
MaxFrames == 3      \* frames a server sends on one connection
MaxRecords == 4     \* records submitted to one MessageWriter
MaxFlushes == 2     \* direct calls of flush on one MessageWriter
MaxZone == 4        \* records of a zone given to verifyZone

(***************************************************************************)
(* Program constants.                                                      *)
(***************************************************************************)
MAX_MESSAGE_SIZE == 65535
maxAttempts == 6
\* AXFRClient.maxMessages is 1000 unless options.maxMessages overrides it;
\* the model runs the client with a small configured ceiling.
maxMessages == 2

(***************************************************************************)
(* Names are sequences of labels, leftmost label first; <<>> is the root   *)
(* '.', the zone origin of AXFRValidator.                                  *)
(***************************************************************************)
origin == <<>>

RR(name, type, ns, nextDomain, types, sig, size) ==
  [name |-> name, type |-> type, ns |-> ns, nextDomain |-> nextDomain,
   types |-> types, sig |-> sig, size |-> size]

\* the SOA record of the root zone (ns.toSOA())
soa == RR(origin, SOA, <<>>, <<>>, {}, TRUE, 64)


(***************************************************************************)
(* The wire.  A frame is a 2-byte big-endian length followed by a message. *)
(* A message is modelled by one byte of transaction id followed by one     *)
(* byte per answer record; WireRR is the record a byte stands for.         *)
(***************************************************************************)
nsecRoot == RR(origin, NSEC, <<>>, origin, {SOA, NSEC}, TRUE, 40)
addrX == RR(<<"x">>, A, <<>>, <<>>, {}, FALSE, 30)

WireRR(b) == CASE b = 1 -> soa
               [] b = 2 -> nsecRoot
               [] OTHER -> addrX

Decode(bytes) ==
  [id |-> bytes[1],
   answer |-> [k \in 1..(Len(bytes) - 1) |-> WireRR(bytes[k + 1])]]

Frame(payload) == <<Len(payload) \div 256, Len(payload) % 256>> \o payload

readUInt16BE(data) == data[1] * 256 + data[2]

\* Buffer.slice(a, b): bytes a .. b-1, 0-based
slice(data, a, b) == SubSeq(data, a + 1, b)

(***************************************************************************)
(* AXFRQuery                                                               *)
(***************************************************************************)
NewQuery ==
  [target |-> 0, size |-> 0, buf |-> <<>>, id |-> 0, msgs |-> <<>>,
   ok |-> FALSE, status |-> "connecting", err |-> null]

NoQuery == [NewQuery EXCEPT !.status = "none"]

\* a throw inside read, or an error event: socket.destroy(); reject(e)
Reject(qq, e) == [qq EXCEPT !.status = "rejected", !.err = e]

\* a ceiling that is tested after the message has been counted twice
tooLargeLate(n) == n > maxMessages

\* the ceiling test of read with n completed messages:
\* this.msgs.length + 1 > this.maxMessages
tooLarge(n) == n + 1 > maxMessages

\* the frame held in buf is complete (size === target)
frameComplete(qq) ==
  IF Len(qq.buf) = 0 THEN Reject(qq, "decode error")
  ELSE
    LET msg == Decode(qq.buf)
        n == Len(msg.answer)
    IN IF msg.id # qq.id THEN Reject(qq, "Message id does not match")
       ELSE IF n = 0 THEN Reject(qq, "Empty message")
       ELSE IF Len(qq.msgs) = 0 /\ msg.answer[1].type # SOA
         THEN Reject(qq, "First record must be SOA")
       ELSE IF tooLarge(Len(qq.msgs))
         THEN Reject(qq, "Transfer is too large")
       ELSE IF msg.answer[n].type = SOA
         THEN [qq EXCEPT !.msgs = Append(@, msg), !.ok = TRUE,
                         !.status = "resolved"]
       ELSE [qq EXCEPT !.msgs = Append(@, msg), !.target = 0, !.size = 0,
                       !.buf = <<>>]

RECURSIVE read(_, _)
read(qq, data) ==
  IF qq.target = 0 /\ ~(Len(data) > 1)
    THEN Reject(qq, "Malformed packet received")
  ELSE
    LET target == IF qq.target = 0 THEN readUInt16BE(data) ELSE qq.target
        off == IF qq.target = 0 THEN 2 ELSE 0
        d == slice(data, off, Len(data))
        exceeds == qq.size + Len(d) > target
        writeLength == IF exceeds THEN target - qq.size ELSE Len(d)
        remaining == slice(d, writeLength, Len(d))
        q1 == [qq EXCEPT !.target = target,
                         !.buf = @ \o SubSeq(d, 1, writeLength),
                         !.size = @ + writeLength]
        q2 == IF q1.size = q1.target THEN frameComplete(q1) ELSE q1
    IN IF q2.status # "open" THEN q2
       ELSE IF exceeds THEN read(q2, remaining)
       ELSE q2

(***************************************************************************)
(* AXFRClient                                                              *)
(***************************************************************************)
Hosts == <<"b.root-servers.net", "c.root-servers.net", "f.root-servers.net",
           "a.root-servers.net", "d.root-servers.net">>

servers == SubSeq(Hosts, 1, cfg.n)

getServer(idx) == servers[idx + 1]

\* a cursor that stops at the last server instead of wrapping
nextIndexNoWrap(idx) == IF idx + 1 >= Len(servers) THEN idx ELSE idx + 1

\* nextServer: this.index = (this.index + 1) % this.servers.length
nextIndex(idx) == (idx + 1) % Len(servers)

Ids == {1, 2}

\* messages a server may send: a transaction id and a list of record bytes
Answers == {<<>>, <<1>>, <<1, 2>>, <<3>>, <<3, 1>>}
\* what a server may answer to a query with transaction id `id`: an empty
\* frame, a message with another id, or a message with that id
Payloads(id) ==
  {<<>>} \cup {<<x, 1>> : x \in Ids \ {id}} \cup {<<id>> \o a : a \in Answers}

\* AXFRClient.query up to the first await: getServer, then the first
\* iteration of the loop creates an AXFRQuery and calls exchange
StartQuery ==
  /\ qpc = "idle"
  /\ sess.pc = "load"
  /\ qpc' = "attempt"
  /\ i' = 0
  /\ server' = getServer(index)
  /\ q' = NewQuery
  /\ conn' = getServer(index)
  /\ wire' = <<>>
  /\ sent' = <<>>
  /\ UNCHANGED <<cfg, sess, index, log, result, mergeDB>>
  /\ UNCHANGED <<wvars, vvars>>
  /\ UNCHANGED <<xvars, cvars, ovars>>

\* the connect callback of exchange: the query is written with a fresh id
Connected ==
  /\ qpc = "attempt"
  /\ q.status = "connecting"
  /\ \E id \in Ids : q' = [q EXCEPT !.id = id, !.status = "open"]
  /\ UNCHANGED <<cfg, sess, index, qpc, i, server, conn, wire, sent, log, result, mergeDB>>
  /\ UNCHANGED <<wvars, vvars>>
  /\ UNCHANGED <<xvars, cvars, ovars>>

\* the server writes one more frame on the connection
ServerSend ==
  /\ qpc = "attempt"
  /\ q.status = "open"
  /\ Len(sent) < MaxFrames
  /\ \E p \in Payloads(q.id) :
       /\ wire' = wire \o Frame(p)
       /\ sent' = Append(sent, p)
  /\ UNCHANGED <<cfg, sess, index, qpc, i, server, q, conn, log, result, mergeDB>>
  /\ UNCHANGED <<wvars, vvars>>
  /\ UNCHANGED <<xvars, cvars, ovars>>

\* socket.on('data'): the transport hands over the next n bytes; a socket
\* destroyed by the handler drops what was still in flight
OnData ==
  /\ qpc = "attempt"
  /\ q.status = "open"
  /\ \E n \in 1..Len(wire) :
       /\ q' = read(q, SubSeq(wire, 1, n))
       /\ wire' = IF q'.status = "open" THEN SubSeq(wire, n + 1, Len(wire))
                  ELSE <<>>
  /\ UNCHANGED <<cfg, sess, index, qpc, i, server, conn, sent, log, result, mergeDB>>
  /\ UNCHANGED <<wvars, vvars>>
  /\ UNCHANGED <<xvars, cvars, ovars>>

\* socket.on('timeout')
OnTimeout ==
  /\ qpc = "attempt"
  /\ q.status \in {"connecting", "open"}
  /\ q' = Reject(q, "Timed out")
  /\ wire' = <<>>
  /\ UNCHANGED <<cfg, sess, index, qpc, i, server, conn, sent, log, result, mergeDB>>
  /\ UNCHANGED <<wvars, vvars>>
  /\ UNCHANGED <<xvars, cvars, ovars>>

\* socket.on('error'): connection refused or reset
OnError ==
  /\ qpc = "attempt"
  /\ q.status \in {"connecting", "open"}
  /\ q' = Reject(q, "socket error")
  /\ wire' = <<>>
  /\ UNCHANGED <<cfg, sess, index, qpc, i, server, conn, sent, log, result, mergeDB>>
  /\ UNCHANGED <<wvars, vvars>>
  /\ UNCHANGED <<xvars, cvars, ovars>>

\* socket.on('close'): the server closed after everything it sent was read
OnClose ==
  /\ qpc = "attempt"
  /\ q.status = "open"
  /\ wire = <<>>
  /\ ~q.ok
  /\ q' = Reject(q, "Closed unexpectedly")
  /\ UNCHANGED <<cfg, sess, index, qpc, i, server, conn, wire, sent, log, result, mergeDB>>
  /\ UNCHANGED <<wvars, vvars>>
  /\ UNCHANGED <<xvars, cvars, ovars>>

(***************************************************************************)
(* AXFRValidator                                                           *)
(***************************************************************************)
RECURSIVE Flatten(_)
Flatten(msgs) ==
  IF msgs = <<>> THEN <<>> ELSE Head(msgs).answer \o Flatten(Tail(msgs))

Range(s) == {s[k] : k \in 1..Len(s)}

\* util.filterSet(rrs, ...types): the records whose type is none of types
filterSet(rrs, ts) == SelectSeq(rrs, LAMBDA r : r.type \notin ts)

\* util.extractSet(rrs, name, type)
extractSet(rrs, name, t) == SelectSeq(rrs, LAMBDA r : r.name = name /\ r.type = t)

\* util.hasType(rrs, type)
hasType(rrs, t) == \E k \in 1..Len(rrs) : rrs[k].type = t

\* the name with its leftmost label stripped (util.from(name, 1))
parentOf(name) == IF Len(name) = 0 THEN name ELSE Tail(name)

\* util.fqdn(util.from(name, -1)): the name made of the last label of name;
\* the root has no label and is returned unchanged
tldOf(name) == IF Len(name) = 0 THEN name ELSE <<name[Len(name)]>>

\* dnssec.verifyMessage(buf, keyMap): every record set of the answer carries
\* a signature that verifies under the trusted keys
verifyMessage(answer) == \A k \in 1..Len(answer) : answer[k].sig

\* the keys of this.owners in insertion order
RECURSIVE ownerOrder(_, _)
ownerOrder(rrs, seen) ==
  IF rrs = <<>> THEN <<>>
  ELSE IF Head(rrs).name \in seen THEN ownerOrder(Tail(rrs), seen)
  ELSE <<Head(rrs).name>> \o ownerOrder(Tail(rrs), seen \cup {Head(rrs).name})

\* this.owners after the first loop of verifyZone
buildOwners(rrs) ==
  [name \in {r.name : r \in Range(rrs)} |->
     [delegation |-> name # origin /\ \E r \in Range(rrs) : r.name = name /\ r.type = NS,
      rrs |-> SelectSeq(rrs, LAMBDA r : r.name = name)]]

\* this.maybeGlue after the first loop of verifyZone
buildMaybeGlue(rrs) == {r.ns : r \in {x \in Range(rrs) : x.type = NS}}

\* a verifier input that keeps the NS set of a delegation
verifyInputAll(owner) == owner.rrs

\* the record set handed to the verifier for an owner
verifyInput(owner) ==
  IF owner.delegation THEN filterSet(owner.rrs, {NS}) ELSE owner.rrs

\* the glue test of the second loop of verifyZone
isGlue(name, owners, maybeGlue) ==
  /\ name \in maybeGlue
  /\ LET tld == tldOf(name) IN
       /\ tld \in DOMAIN owners
       /\ owners[tld].delegation
       /\ Len(filterSet(owners[name].rrs, {A, AAAA})) = 0

\* the second loop of verifyZone from position k of the owner order:
\* st = [glue, calls, err, errName]
RECURSIVE verifyOwners(_, _, _, _, _)
verifyOwners(k, order, owners, maybeGlue, st) ==
  IF k > Len(order) THEN st
  ELSE
    LET name == order[k]
        answer == verifyInput(owners[name])
    IN IF isGlue(name, owners, maybeGlue)
         THEN verifyOwners(k + 1, order, owners, maybeGlue,
                           [st EXCEPT !.glue = @ \cup {name}])
       ELSE IF ~verifyMessage(answer)
         THEN [st EXCEPT !.calls = Append(@, [name |-> name, answer |-> answer]),
                         !.err = "bogus: unable to validate zone data",
                         !.errName = name]
       ELSE verifyOwners(k + 1, order, owners, maybeGlue,
                         [st EXCEPT !.calls = Append(@, [name |-> name, answer |-> answer])])

\* verifyBitmap(name, owner, bitmap): the error thrown, or null
verifyBitmap(owner, bitmap) ==
  IF \E t \in bitmap : ~hasType(owner.rrs, t)
    THEN "bogus: could not find type"
  ELSE IF owner.delegation /\ NS \notin bitmap
    THEN "bogus: claim to have a delegation yet no NS in NSEC bitmap"
  ELSE null

\* a walk that takes any revisited name as the end of the chain
closesAnywhere(next) == TRUE

\* a pointer to a name already seen closes the chain only at the origin
closesChain(next) == next = origin

\* the loop of verifyNSEC at owner name with the names seen so far:
\* [err, errName, seen]
RECURSIVE walkNSEC(_, _, _)
walkNSEC(name, seen, owners) ==
  IF name \notin DOMAIN owners
    THEN [err |-> "bogus: invalid data", errName |-> name, seen |-> seen]
  ELSE
    LET owner == owners[name]
        rrs == extractSet(owner.rrs, name, NSEC)
    IN IF Len(rrs) # 1
         THEN [err |-> "bogus: NSEC must exist", errName |-> name, seen |-> seen]
       ELSE
         LET rr == rrs[1]
             e == verifyBitmap(owner, rr.types)
             next == rr.nextDomain
         IN IF e # null THEN [err |-> e, errName |-> name, seen |-> seen]
            ELSE IF next \in seen
              THEN IF ~closesChain(next)
                     THEN [err |-> "bogus: bad NSEC chain", errName |-> next,
                           seen |-> seen]
                     ELSE [err |-> null, errName |-> origin, seen |-> seen]
            ELSE walkNSEC(next, seen \cup {next}, owners)

verifyNSEC(owners) == walkNSEC(origin, {origin}, owners)

\* the Merge Result of loadMergeZone when merging is disabled
EmptyDB == [names |-> <<>>, glue |-> {}, nsecChain |-> {}]

NoResult ==
  [status |-> "none", err |-> null, errName |-> origin, glue |-> {},
   names |-> <<>>, nsecChain |-> {}, calls |-> <<>>]

\* a check that looks at the first record only
hasNSEC3First(rrs) == rrs # <<>> /\ rrs[1].type = NSEC3

\* the NSEC3 test of the first loop of verifyZone
hasNSEC3(rrs) == \E k \in 1..Len(rrs) : rrs[k].type = NSEC3

verifyZone(messages) ==
  LET rrs == Flatten(messages) IN
  IF hasNSEC3(rrs)
    THEN [NoResult EXCEPT !.status = "bogus", !.err = "bogus: NSEC3 not supported"]
  ELSE
    LET owners == buildOwners(rrs)
        maybeGlue == buildMaybeGlue(rrs)
        st == verifyOwners(1, ownerOrder(rrs, {}), owners, maybeGlue,
                           [glue |-> {}, calls |-> <<>>, err |-> null,
                            errName |-> origin])
    IN IF st.err # null
         THEN [NoResult EXCEPT !.status = "bogus", !.err = st.err,
                               !.errName = st.errName, !.calls = st.calls,
                               !.glue = st.glue]
       ELSE
         LET chain == verifyNSEC(owners) IN
         IF chain.err # null
           THEN [NoResult EXCEPT !.status = "bogus", !.err = chain.err,
                                 !.errName = chain.errName, !.calls = st.calls,
                                 !.glue = st.glue]
         ELSE [status |-> "ok", err |-> null, errName |-> origin,
               glue |-> st.glue, names |-> owners, nsecChain |-> chain.seen,
               calls |-> st.calls]

(***************************************************************************)
(* MessageWriter                                                           *)
(***************************************************************************)
\* this.msg.getSize(null) of the seeded reply with an empty answer section:
\* a 12-byte header and the question ('.' AXFR IN, 5 bytes)
BaseSize == 17

\* a reset that restores the size and keeps the records
resetSizeOnly(w) == [w EXCEPT !.size = BaseSize]

\* reset(): an empty answer section and the size of the seeded reply
reset(w) == [w EXCEPT !.answer = <<>>, !.size = BaseSize]

NewWriter == [answer |-> <<>>, size |-> BaseSize, written |-> 0]

\* a flush that goes on after the write callback reported failure
flushNoThrow(w, ok) ==
  IF w.size = 0
    THEN [w |-> w, emitted |-> <<>>, threw |-> FALSE]
  ELSE [w |-> reset(w),
        emitted |-> <<[answer |-> w.answer, size |-> w.size, ok |-> ok]>>,
        threw |-> FALSE]

\* flush(): ok is what the write callback returns.
\* Result: the writer, the messages handed to the callback, whether it threw.
flush(w, ok) ==
  IF w.size = 0
    THEN [w |-> w, emitted |-> <<>>, threw |-> FALSE]
  ELSE
    LET m == [answer |-> w.answer, size |-> w.size, ok |-> ok] IN
    IF ~ok THEN [w |-> w, emitted |-> <<m>>, threw |-> TRUE]
    ELSE [w |-> reset(w), emitted |-> <<m>>, threw |-> FALSE]

\* whether writeRR flushes before appending a record of this size
overflows(size, w) == size + w.size > MAX_MESSAGE_SIZE

writeRR(w, rr, ok) ==
  LET w1 == [w EXCEPT !.written = @ + 1]
      f == IF overflows(rr.size, w1) THEN flush(w1, ok)
           ELSE [w |-> w1, emitted |-> <<>>, threw |-> FALSE]
  IN IF f.threw THEN f
     ELSE [w |-> [f.w EXCEPT !.size = @ + rr.size, !.answer = Append(@, rr)],
           emitted |-> f.emitted, threw |-> FALSE]

\* records offered to the writer: a small one, one of half the maximum, the
\* largest that fits a fresh message and one that fits no message
WriterRRs ==
  { RR(<<"a">>, A, <<>>, <<>>, {}, TRUE, 100),
    RR(<<"b">>, A, <<>>, <<>>, {}, TRUE, 32768),
    RR(<<"c">>, A, <<>>, <<>>, {}, TRUE, MAX_MESSAGE_SIZE - BaseSize),
    RR(<<"d">>, A, <<>>, <<>>, {}, TRUE, MAX_MESSAGE_SIZE - BaseSize + 1) }

\* await transfer.writeRR(rr)
WriteRR ==
  /\ ~failed
  /\ todo = <<>>
  /\ Len(submitted) < MaxRecords
  /\ \E rr \in WriterRRs :
       LET r == writeRR(transfer, rr, sockOpen) IN
         /\ transfer' = r.w
         /\ out' = out \o r.emitted
         /\ failed' = r.threw
         /\ submitted' = Append(submitted, rr)
  /\ UNCHANGED <<sockOpen, todo, flushes>>
  /\ UNCHANGED <<qvars, vvars>>
  /\ UNCHANGED <<xvars, cvars, ovars>>

\* transfer.writeAll(rrs) is called with a list of records
WriteAll ==
  /\ ~failed
  /\ todo = <<>>
  /\ \E r1 \in WriterRRs, r2 \in WriterRRs :
       /\ Len(submitted) + 2 <= MaxRecords
       /\ todo' = <<r1, r2>>
  /\ UNCHANGED <<transfer, out, sockOpen, submitted, failed, flushes>>
  /\ UNCHANGED <<qvars, vvars>>
  /\ UNCHANGED <<xvars, cvars, ovars>>

\* one iteration of the loop of writeAll: await this.writeRR(rr)
WriteAllStep ==
  /\ ~failed
  /\ todo # <<>>
  /\ LET r == writeRR(transfer, Head(todo), sockOpen) IN
       /\ transfer' = r.w
       /\ out' = out \o r.emitted
       /\ failed' = r.threw
       /\ submitted' = Append(submitted, Head(todo))
       /\ todo' = IF r.threw THEN <<>> ELSE Tail(todo)
  /\ UNCHANGED <<sockOpen, flushes>>
  /\ UNCHANGED <<qvars, vvars>>
  /\ UNCHANGED <<xvars, cvars, ovars>>

\* await transfer.flush()
Flush ==
  /\ ~failed
  /\ todo = <<>>
  /\ flushes < MaxFlushes
  /\ flushes' = flushes + 1
  /\ LET r == flush(transfer, sockOpen) IN
       /\ transfer' = r.w
       /\ out' = out \o r.emitted
       /\ failed' = r.threw
  /\ UNCHANGED <<sockOpen, todo, submitted>>
  /\ UNCHANGED <<qvars, vvars>>
  /\ UNCHANGED <<xvars, cvars, ovars>>

\* the requester's socket goes away: Plugin.write finds no socket from now on
SocketGone ==
  /\ sockOpen
  /\ ~failed
  /\ sockOpen' = FALSE
  /\ UNCHANGED <<transfer, out, todo, submitted, failed, flushes>>
  /\ UNCHANGED <<qvars, vvars>>
  /\ UNCHANGED <<xvars, cvars, ovars>>

IdleQuery ==
  /\ cfg = [n |-> 1, disableMerge |-> TRUE]
  /\ sess = [pc |-> "none", err |-> null]
  /\ index = 0
  /\ qpc = "idle"
  /\ i = 0
  /\ server = null
  /\ q = NoQuery
  /\ conn = null
  /\ wire = <<>>
  /\ sent = <<>>
  /\ log = <<>>
  /\ result = [isNull |-> TRUE, msgs |-> <<>>]
  /\ mergeDB = EmptyDB

IdleWriter ==
  /\ transfer = NewWriter
  /\ out = <<>>
  /\ sockOpen = TRUE
  /\ todo = <<>>
  /\ submitted = <<>>
  /\ failed = FALSE
  /\ flushes = 0

IdleValidator ==
  /\ vin = <<>>
  /\ vres = NoResult

(***************************************************************************)
(* Plugin: request, configuration and local name tree.                     *)
(***************************************************************************)
NOERROR == 0
REFUSED == 5

NoRes == [code |-> NOERROR, answer |-> <<>>]

\* node.config.str('axfr-allow-ips', '127.0.0.1')
ipList == {"127.0.0.1"}
Addresses == {"127.0.0.1", "192.0.2.7"}

Sessions == {1, 2}

IdleCq == [pc |-> "idle", i |-> 0, server |-> null, start |-> 0, trail |-> <<>>]

IdleOld ==
  [pc |-> "none", answer |-> <<>>, progress |-> 0, pos |-> 0, todo |-> <<>>,
   sent |-> <<>>, res |-> NoRes]

IdleSession ==
  /\ rinfo = [tcp |-> TRUE, address |-> "127.0.0.1"]
  /\ prefer = FALSE
  /\ store = <<>>
  /\ iter = 0
  /\ warn = <<>>
  /\ res = NoRes
  /\ cq = [p \in Sessions |-> IdleCq]
  /\ old = IdleOld

InitW == IdleQuery /\ IdleWriter /\ IdleValidator /\ IdleSession

NextW == WriteRR \/ WriteAll \/ WriteAllStep \/ Flush \/ SocketGone

SpecW == InitW /\ [][NextW]_vars

(***************************************************************************)
(* Zones given to verifyZone.  The records of the root zone, of the        *)
(* delegation com. and of two name servers below it: <<"ns", "com">> is    *)
(* ns.com. and <<"a", "nic", "com">> is a.nic.com.                         *)
(***************************************************************************)
com == <<"com">>
nsCom == <<"ns", "com">>
aNicCom == <<"a", "nic", "com">>

ZoneRRs ==
  { soa,
    RR(origin, NSEC, <<>>, origin, {SOA, NSEC}, TRUE, 40),
    RR(origin, NSEC, <<>>, com, {NSEC}, TRUE, 40),
    RR(origin, NSEC3, <<>>, <<>>, {}, TRUE, 40),
    RR(com, NSEC, <<>>, origin, {NS, NSEC}, TRUE, 40),
    RR(com, NSEC, <<>>, com, {NSEC}, TRUE, 40),
    RR(origin, NS, nsCom, <<>>, {}, TRUE, 30),
    RR(com, NS, nsCom, <<>>, {}, FALSE, 30),
    RR(com, NS, aNicCom, <<>>, {}, FALSE, 30),
    RR(nsCom, A, <<>>, <<>>, {}, FALSE, 30),
    RR(nsCom, RRSIG, <<>>, <<>>, {}, TRUE, 30),
    RR(aNicCom, AAAA, <<>>, <<>>, {}, TRUE, 30) }

MaxMsgs == 2        \* messages of a zone given to verifyZone

\* the zone under construction gets one more record in its last message
AddRR ==
  /\ vres.status = "none"
  /\ Len(Flatten(vin)) < MaxZone
  /\ \E rr \in ZoneRRs \ Range(Flatten(vin)) :
       vin' = IF vin = <<>> THEN <<[id |-> 1, answer |-> <<rr>>]>>
              ELSE [vin EXCEPT ![Len(vin)].answer = Append(@, rr)]
  /\ UNCHANGED vres
  /\ UNCHANGED <<qvars, wvars>>
  /\ UNCHANGED <<xvars, cvars, ovars>>

\* the zone under construction continues in a new message
NewMessage ==
  /\ vres.status = "none"
  /\ vin # <<>>
  /\ Len(vin) < MaxMsgs
  /\ Len(vin[Len(vin)].answer) > 0
  /\ Len(Flatten(vin)) < MaxZone
  /\ \E rr \in ZoneRRs \ Range(Flatten(vin)) :
       vin' = Append(vin, [id |-> 1, answer |-> <<rr>>])
  /\ UNCHANGED vres
  /\ UNCHANGED <<qvars, wvars>>
  /\ UNCHANGED <<xvars, cvars, ovars>>

\* validator.verifyZone(data, keyMap)
VerifyZone ==
  /\ vres.status = "none"
  /\ vin # <<>>
  /\ vres' = verifyZone(vin)
  /\ UNCHANGED vin
  /\ UNCHANGED <<qvars, wvars>>
  /\ UNCHANGED <<xvars, cvars, ovars>>

InitV == IdleQuery /\ IdleWriter /\ IdleValidator /\ IdleSession

NextV == AddRR \/ NewMessage \/ VerifyZone

SpecV == InitV /\ [][NextV]_vars

(***************************************************************************)
(* Plugin.sendAXFR up to the first record written, and the retry loop of   *)
(* AXFRClient.query.                                                       *)
(***************************************************************************)
\* a retry that keeps the AXFRQuery of the failed attempt
reuseQuery(qq) ==
  [qq EXCEPT !.status = "connecting", !.err = null, !.target = 0, !.size = 0,
             !.buf = <<>>]

\* new AXFRQuery(...) at the top of each iteration of the loop of query
newAttempt(qq) == NewQuery

\* a loop that runs one iteration too many
moreAttemptsOffByOne(n) == n <= maxAttempts

\* the loop condition of query: i < this.maxAttempts
moreAttempts(n) == n < maxAttempts

\* sendAXFR from its call to the await of the external zone
SendAXFR ==
  /\ sess.pc = "init"
  /\ \E tcp \in BOOLEAN, allowed \in BOOLEAN :
       IF ~tcp \/ ~allowed
         THEN /\ sess' = [sess EXCEPT !.pc = "refused"]
              /\ UNCHANGED <<mergeDB, transfer, out, submitted, failed>>
       ELSE IF cfg.disableMerge
         THEN LET r == writeRR(NewWriter, soa, sockOpen) IN
              /\ sess' = [sess EXCEPT !.pc = "transfer"]
              /\ mergeDB' = EmptyDB
              /\ transfer' = r.w
              /\ out' = out \o r.emitted
              /\ submitted' = <<soa>>
              /\ failed' = r.threw
       ELSE /\ sess' = [sess EXCEPT !.pc = "load"]
            /\ UNCHANGED <<mergeDB, transfer, out, submitted, failed>>
  /\ UNCHANGED <<cfg, index, qpc, i, server, q, conn, wire, sent, log, result>>
  /\ UNCHANGED <<sockOpen, todo, flushes, vvars>>
  /\ UNCHANGED <<xvars, cvars, ovars>>

\* the promise of exchange resolved: query returns the message list
QueryReturn ==
  /\ qpc = "attempt"
  /\ q.status = "resolved"
  /\ qpc' = "returned"
  /\ result' = [isNull |-> FALSE, msgs |-> q.msgs]
  /\ UNCHANGED <<cfg, sess, index, i, server, q, conn, wire, sent, log, mergeDB>>
  /\ UNCHANGED <<wvars, vvars>>
  /\ UNCHANGED <<xvars, cvars, ovars>>

\* the promise of exchange rejected: the catch block of query, then the next
\* iteration of the loop or, after maxAttempts, return null
QueryCatch ==
  /\ qpc = "attempt"
  /\ q.status = "rejected"
  /\ log' = Append(log, server)
  /\ index' = nextIndex(index)
  /\ server' = getServer(index')
  /\ i' = i + 1
  /\ IF moreAttempts(i')
       THEN /\ q' = newAttempt(q)
            /\ conn' = server'
            /\ wire' = <<>>
            /\ sent' = <<>>
            /\ UNCHANGED <<qpc, result>>
       ELSE /\ qpc' = "returned"
            /\ result' = [isNull |-> TRUE, msgs |-> <<>>]
            /\ UNCHANGED <<q, conn, wire, sent>>
  /\ UNCHANGED <<cfg, sess, mergeDB>>
  /\ UNCHANGED <<wvars, vvars>>
  /\ UNCHANGED <<xvars, cvars, ovars>>

\* loadMergeZone after query returned, and sendAXFR up to the first writeRR
LoadMergeZone ==
  /\ sess.pc = "load"
  /\ qpc = "returned"
  /\ qpc' = "idle"
  /\ IF result.isNull
       THEN /\ sess' = [pc |-> "failed", err |-> "no zone data"]
            /\ UNCHANGED <<mergeDB, transfer, out, submitted, failed, vin, vres>>
       ELSE LET v == verifyZone(result.msgs) IN
            /\ vin' = result.msgs
            /\ vres' = v
            /\ IF v.status # "ok"
                 THEN /\ sess' = [pc |-> "failed", err |-> v.err]
                      /\ UNCHANGED <<mergeDB, transfer, out, submitted, failed>>
                 ELSE LET r == writeRR(NewWriter, soa, sockOpen) IN
                      /\ sess' = [sess EXCEPT !.pc = "transfer"]
                      /\ mergeDB' = [names |-> v.names, glue |-> v.glue,
                                     nsecChain |-> v.nsecChain \ {origin}]
                      /\ transfer' = r.w
                      /\ out' = out \o r.emitted
                      /\ submitted' = <<soa>>
                      /\ failed' = r.threw
  /\ UNCHANGED <<cfg, index, i, server, q, conn, wire, sent, log, result>>
  /\ UNCHANGED <<sockOpen, todo, flushes>>
  /\ UNCHANGED <<xvars, cvars, ovars>>

Init ==
  /\ cfg \in [n : 1..NumServers, disableMerge : BOOLEAN]
  /\ sess = [pc |-> "init", err |-> null]
  /\ index = 0
  /\ qpc = "idle"
  /\ i = 0
  /\ server = null
  /\ q = NoQuery
  /\ conn = null
  /\ wire = <<>>
  /\ sent = <<>>
  /\ log = <<>>
  /\ result = [isNull |-> TRUE, msgs |-> <<>>]
  /\ mergeDB = EmptyDB
  /\ IdleWriter
  /\ IdleValidator
  /\ IdleSession

Next ==
  \/ SendAXFR
  \/ StartQuery
  \/ Connected
  \/ ServerSend
  \/ OnData
  \/ OnTimeout
  \/ OnError
  \/ OnClose
  \/ QueryReturn
  \/ QueryCatch
  \/ LoadMergeZone

Spec == Init /\ [][Next]_vars

(***************************************************************************)
(* Two transfer sessions of one plugin instance: both call query on        *)
(* this.axfrClient, whose index is the failover cursor (SpecC).            *)
(***************************************************************************)
\* query(zone) is entered by a session: let server = this.getServer()
SessionQuery ==
  /\ \E p \in Sessions :
       /\ cq[p].pc = "idle"
       /\ cq' = [cq EXCEPT ![p] = [pc |-> "attempt", i |-> 0,
                                   server |-> getServer(index),
                                   start |-> index,
                                   trail |-> <<getServer(index)>>]]
  /\ UNCHANGED <<qvars, wvars, vvars, xvars, ovars>>

\* the exchange of a session's attempt rejects: the catch block of query,
\* then the next iteration of the loop or, after maxAttempts, return null
SessionCatch ==
  /\ \E p \in Sessions :
       /\ cq[p].pc = "attempt"
       /\ index' = nextIndex(index)
       /\ LET next == getServer(index')
              n == cq[p].i + 1
          IN cq' = [cq EXCEPT ![p] =
                      IF moreAttempts(n)
                        THEN [@ EXCEPT !.i = n, !.server = next,
                                       !.trail = Append(@, next)]
                        ELSE [@ EXCEPT !.i = n, !.server = next,
                                       !.pc = "returned"]]
  /\ UNCHANGED <<cfg, sess, qpc, i, server, q, conn, wire, sent, log, result,
                 mergeDB>>
  /\ UNCHANGED <<wvars, vvars, xvars, ovars>>

\* the exchange of a session's attempt resolves: query returns the messages
SessionReturn ==
  /\ \E p \in Sessions :
       /\ cq[p].pc = "attempt"
       /\ cq' = [cq EXCEPT ![p].pc = "returned"]
  /\ UNCHANGED <<qvars, wvars, vvars, xvars, ovars>>

InitC ==
  /\ cfg \in [n : 1..NumServers, disableMerge : {FALSE}]
  /\ sess = [pc |-> "none", err |-> null]
  /\ index = 0
  /\ qpc = "idle"
  /\ i = 0
  /\ server = null
  /\ q = NoQuery
  /\ conn = null
  /\ wire = <<>>
  /\ sent = <<>>
  /\ log = <<>>
  /\ result = [isNull |-> TRUE, msgs |-> <<>>]
  /\ mergeDB = EmptyDB
  /\ IdleWriter
  /\ IdleValidator
  /\ IdleSession

NextC == SessionQuery \/ SessionCatch \/ SessionReturn

SpecC == InitC /\ [][NextC]_vars

(***************************************************************************)
(* The local name tree and the external zones of a transfer session.       *)
(***************************************************************************)
hns == <<"hns">>
org == <<"org">>

\* resource.toZone(fqdn) of the local entries
lNsCom == RR(com, NS, <<"ns1", "com">>, <<>>, {}, FALSE, 40000)
lSigCom == RR(com, RRSIG, <<>>, <<>>, {}, TRUE, 100)
lNsHns == RR(hns, NS, <<"ns1", "hns">>, <<>>, {}, FALSE, 40000)
lNsOrg == RR(org, NS, <<"ns1", "org">>, <<>>, {}, FALSE, 30000)

\* an entry of the tree: data is ns.data.length > 0, zone is what the
\* resource decodes to
Entry(name, data, zone) == [name |-> name, data |-> data, zone |-> zone]

\* the tree in iterator order: com, hns and org, each absent or present
Stores ==
  { c \o h \o o :
      c \in { <<>>, <<Entry(com, FALSE, <<>>)>>, <<Entry(com, TRUE, <<>>)>>,
              <<Entry(com, TRUE, <<lSigCom>>)>>,
              <<Entry(com, TRUE, <<lNsCom, lSigCom>>)>> },
      h \in { <<>>, <<Entry(hns, TRUE, <<lNsHns>>)>> },
      o \in { <<>>, <<Entry(org, TRUE, <<lNsOrg>>)>> } }

\* records of the external root zone
xNsecRootCom == RR(origin, NSEC, <<>>, com, {SOA, NSEC}, TRUE, 40)
xNsCom == RR(com, NS, nsCom, <<>>, {}, FALSE, 30000)
xSigCom == RR(com, RRSIG, <<>>, <<>>, {}, TRUE, 90)
xNsecComRoot == RR(com, NSEC, <<>>, origin, {NS, NSEC}, TRUE, 40)
xNsecComOrg == RR(com, NSEC, <<>>, org, {NS, NSEC}, TRUE, 40)
xNsOrg == RR(org, NS, nsCom, <<>>, {}, FALSE, 30000)
xNsecOrgRoot == RR(org, NSEC, <<>>, origin, {NS, NSEC}, TRUE, 40)
xGlueA == RR(nsCom, A, <<>>, <<>>, {}, FALSE, 30)
xGlueAAAA == RR(nsCom, AAAA, <<>>, <<>>, {}, FALSE, 40)

Msg(answer) == [id |-> 1, answer |-> answer]

\* what query('.') returns: the root alone; the root and com.; the root,
\* com. and org. delegated to the same name server; a zone without NSEC
ExtZones ==
  { <<Msg(<<soa, nsecRoot, soa>>)>>,
    <<Msg(<<soa, xNsecRootCom, xNsCom, xSigCom, xNsecComRoot>>),
      Msg(<<xGlueA, xGlueAAAA, soa>>)>>,
    <<Msg(<<soa, xNsecRootCom, xNsCom, xSigCom, xNsecComOrg>>),
      Msg(<<xNsOrg, xNsecOrgRoot, xGlueA, xGlueAAAA, soa>>)>>,
    <<Msg(<<soa, soa>>)>> }

(***************************************************************************)
(* Plugin.sendAXFR of the merging plugin (SpecX).                          *)
(***************************************************************************)
\* a test that forgets the allow-list
refusesUdpOnly(ri) == ~ri.tcp

\* the two refusal tests of sendAXFR
refuses(ri) == ~ri.tcp \/ ri.address \notin ipList

\* refuse()
refuse == [code |-> REFUSED, answer |-> <<>>]

\* a policy that keeps the local records when ICANN is preferred
pickRRsSwapped(name, hnsZone, db, preferICANN) ==
  IF name \notin db.nsecChain
    THEN [zone |-> hnsZone, db |-> db, warn |-> <<>>]
  ELSE IF preferICANN
    THEN [zone |-> hnsZone,
          db |-> [db EXCEPT !.nsecChain = @ \ {name}],
          warn |-> <<[name |-> name, preferICANN |-> preferICANN]>>]
  ELSE [zone |-> <<>>, db |-> db,
        warn |-> <<[name |-> name, preferICANN |-> preferICANN]>>]

\* pickRRs(name, hnsZone, mergeDB): the zone returned, mergeDB afterwards
\* and the warning logged
pickRRs(name, hnsZone, db, preferICANN) ==
  IF name \notin db.nsecChain
    THEN [zone |-> hnsZone, db |-> db, warn |-> <<>>]
  ELSE IF ~preferICANN
    THEN [zone |-> hnsZone,
          db |-> [db EXCEPT !.nsecChain = @ \ {name}],
          warn |-> <<[name |-> name, preferICANN |-> preferICANN]>>]
  ELSE [zone |-> <<>>, db |-> db,
        warn |-> <<[name |-> name, preferICANN |-> preferICANN]>>]

\* the NSEC record of an owner of the Merge Result
nsecOf(db, name) == extractSet(db.names[name].rrs, name, NSEC)[1]

\* the names of mergeDB.nsecChain in the order of the Set: the order in
\* which verifyNSEC added them, less the names deleted since
RECURSIVE chainFrom(_, _)
chainFrom(name, db) ==
  LET next == nsecOf(db, name).nextDomain IN
  IF next = origin THEN <<>>
  ELSE (IF next \in db.nsecChain THEN <<next>> ELSE <<>>) \o chainFrom(next, db)

chainOrder(db) == IF origin \in DOMAIN db.names THEN chainFrom(origin, db) ELSE <<>>

\* a glue set that forgets nothing
keepGlue(glue, target) == glue

\* mergeDB.glue.delete(rr.data.ns)
takeGlue(glue, target) == glue \ {target}

\* the loop over the records of one chain owner: the records written, the
\* glue record sets collected and the glue set afterwards
RECURSIVE externalRRs(_, _, _)
externalRRs(zone, db, acc) ==
  IF zone = <<>> THEN acc
  ELSE
    LET rr == Head(zone) IN
    IF rr.type \in {NSEC, RRSIG} THEN externalRRs(Tail(zone), db, acc)
    ELSE IF rr.type = NS /\ rr.ns \in acc.glue
      THEN externalRRs(Tail(zone), db,
             [rrs |-> Append(acc.rrs, rr),
              glues |-> acc.glues \o db.names[rr.ns].rrs,
              glue |-> takeGlue(acc.glue, rr.ns)])
    ELSE externalRRs(Tail(zone), db, [acc EXCEPT !.rrs = Append(@, rr)])

\* sendAXFR from its call to the await of the external zone
Request ==
  /\ sess.pc = "init"
  /\ IF refuses(rinfo)
       THEN /\ res' = refuse
            /\ sess' = [sess EXCEPT !.pc = "refused"]
            /\ UNCHANGED <<qpc, mergeDB, transfer, out, submitted, failed>>
     ELSE IF cfg.disableMerge
       THEN LET r == writeRR(NewWriter, soa, sockOpen) IN
            /\ sess' = [sess EXCEPT !.pc = "local"]
            /\ mergeDB' = EmptyDB
            /\ transfer' = r.w
            /\ out' = out \o r.emitted
            /\ submitted' = <<soa>>
            /\ failed' = r.threw
            /\ UNCHANGED <<qpc, res>>
     ELSE /\ sess' = [sess EXCEPT !.pc = "load"]
          /\ qpc' = "attempt"
          /\ UNCHANGED <<res, mergeDB, transfer, out, submitted, failed>>
  /\ UNCHANGED <<cfg, index, i, server, q, conn, wire, sent, log, result>>
  /\ UNCHANGED <<sockOpen, todo, flushes, vvars>>
  /\ UNCHANGED <<rinfo, prefer, store, iter, warn, cvars, ovars>>

\* query('.') returns data: the rest of loadMergeZone, and sendAXFR up to
\* the first record written
Loaded ==
  /\ sess.pc = "load"
  /\ qpc = "attempt"
  /\ qpc' = "idle"
  /\ \E isNull \in BOOLEAN, data \in ExtZones :
       IF isNull
         THEN /\ sess' = [pc |-> "failed", err |-> "no zone data"]
              /\ UNCHANGED <<mergeDB, transfer, out, submitted, failed, vin, vres>>
       ELSE LET v == verifyZone(data) IN
            /\ vin' = data
            /\ vres' = v
            /\ IF v.status # "ok"
                 THEN /\ sess' = [pc |-> "failed", err |-> v.err]
                      /\ UNCHANGED <<mergeDB, transfer, out, submitted, failed>>
                 ELSE LET r == writeRR(NewWriter, soa, sockOpen) IN
                      /\ sess' = [sess EXCEPT !.pc = "local"]
                      /\ mergeDB' = [names |-> v.names, glue |-> v.glue,
                                     nsecChain |-> v.nsecChain \ {origin}]
                      /\ transfer' = r.w
                      /\ out' = out \o r.emitted
                      /\ submitted' = <<soa>>
                      /\ failed' = r.threw
  /\ UNCHANGED <<cfg, index, i, server, q, conn, wire, sent, log, result>>
  /\ UNCHANGED <<sockOpen, todo, flushes>>
  /\ UNCHANGED <<xvars, cvars, ovars>>

\* one iteration of the loop over the name tree, up to its first writeRR
LocalNext ==
  /\ sess.pc = "local"
  /\ ~failed
  /\ todo = <<>>
  /\ iter < Len(store)
  /\ iter' = iter + 1
  /\ LET ns == store[iter + 1] IN
       IF ~ns.data
         THEN UNCHANGED <<mergeDB, warn, todo>>
       ELSE LET p == pickRRs(ns.name, ns.zone, mergeDB, prefer) IN
            /\ mergeDB' = p.db
            /\ warn' = warn \o p.warn
            /\ todo' = filterSet(p.zone, {RRSIG})
  /\ UNCHANGED <<cfg, sess, index, qpc, i, server, q, conn, wire, sent, log,
                 result>>
  /\ UNCHANGED <<transfer, out, sockOpen, submitted, failed, flushes, vvars>>
  /\ UNCHANGED <<rinfo, prefer, store, res, cvars, ovars>>

\* iter.next() finds no further entry: the loop over the chain set begins
LocalDone ==
  /\ sess.pc = "local"
  /\ ~failed
  /\ todo = <<>>
  /\ iter = Len(store)
  /\ sess' = [sess EXCEPT !.pc = "external"]
  /\ iter' = 0
  /\ UNCHANGED <<cfg, index, qpc, i, server, q, conn, wire, sent, log, result,
                 mergeDB>>
  /\ UNCHANGED <<wvars, vvars, cvars, ovars>>
  /\ UNCHANGED <<rinfo, prefer, store, warn, res>>

\* one iteration of the loop over mergeDB.nsecChain, up to its first writeRR
ExternalNext ==
  /\ sess.pc = "external"
  /\ ~failed
  /\ todo = <<>>
  /\ iter < Len(chainOrder(mergeDB))
  /\ iter' = iter + 1
  /\ LET name == chainOrder(mergeDB)[iter + 1]
         e == externalRRs(mergeDB.names[name].rrs, mergeDB,
                          [rrs |-> <<>>, glues |-> <<>>, glue |-> mergeDB.glue])
     IN /\ todo' = e.rrs \o e.glues
        /\ mergeDB' = [mergeDB EXCEPT !.glue = e.glue]
  /\ UNCHANGED <<cfg, sess, index, qpc, i, server, q, conn, wire, sent, log,
                 result>>
  /\ UNCHANGED <<transfer, out, sockOpen, submitted, failed, flushes, vvars>>
  /\ UNCHANGED <<rinfo, prefer, store, warn, res, cvars, ovars>>

\* a writeRR of one of the loops threw: sendAXFR rejects with the error
Throw ==
  /\ sess.pc \in {"local", "external"}
  /\ failed
  /\ sess' = [pc |-> "failed", err |-> "unable to write message"]
  /\ UNCHANGED <<cfg, index, qpc, i, server, q, conn, wire, sent, log, result,
                 mergeDB>>
  /\ UNCHANGED <<wvars, vvars, xvars, cvars, ovars>>

\* an end of sendAXFR that returns the last message without the flush
FinishUnflushed ==
  /\ sess.pc = "external"
  /\ ~failed
  /\ todo = <<>>
  /\ iter = Len(chainOrder(mergeDB))
  /\ sess' = [sess EXCEPT !.pc = "done"]
  /\ res' = [code |-> NOERROR, answer |-> <<soa>>]
  /\ UNCHANGED <<transfer, out, failed>>
  /\ UNCHANGED <<cfg, index, qpc, i, server, q, conn, wire, sent, log, result,
                 mergeDB>>
  /\ UNCHANGED <<sockOpen, todo, submitted, flushes, vvars>>
  /\ UNCHANGED <<rinfo, prefer, store, iter, warn, cvars, ovars>>

\* the end of sendAXFR: await transfer.flush(), then the last message
Finish ==
  /\ sess.pc = "external"
  /\ ~failed
  /\ todo = <<>>
  /\ iter = Len(chainOrder(mergeDB))
  /\ LET r == flush(transfer, sockOpen) IN
       /\ transfer' = r.w
       /\ out' = out \o r.emitted
       /\ failed' = r.threw
       /\ IF r.threw
            THEN /\ sess' = [pc |-> "failed", err |-> "unable to write message"]
                 /\ UNCHANGED res
            ELSE /\ sess' = [sess EXCEPT !.pc = "done"]
                 /\ res' = [code |-> NOERROR, answer |-> <<soa>>]
  /\ UNCHANGED <<cfg, index, qpc, i, server, q, conn, wire, sent, log, result,
                 mergeDB>>
  /\ UNCHANGED <<sockOpen, todo, submitted, flushes, vvars>>
  /\ UNCHANGED <<rinfo, prefer, store, iter, warn, cvars, ovars>>

InitX ==
  /\ cfg \in [n : {1}, disableMerge : BOOLEAN]
  /\ sess = [pc |-> "init", err |-> null]
  /\ index = 0
  /\ qpc = "idle"
  /\ i = 0
  /\ server = null
  /\ q = NoQuery
  /\ conn = null
  /\ wire = <<>>
  /\ sent = <<>>
  /\ log = <<>>
  /\ result = [isNull |-> TRUE, msgs |-> <<>>]
  /\ mergeDB = EmptyDB
  /\ IdleWriter
  /\ IdleValidator
  /\ rinfo \in [tcp : BOOLEAN, address : Addresses]
  /\ prefer \in BOOLEAN
  /\ store \in Stores
  /\ iter = 0
  /\ warn = <<>>
  /\ res = NoRes
  /\ cq = [p \in Sessions |-> IdleCq]
  /\ old = IdleOld

NextX ==
  \/ Request
  \/ Loaded
  \/ LocalNext
  \/ WriteAllStep
  \/ LocalDone
  \/ ExternalNext
  \/ Throw
  \/ Finish
  \/ SocketGone

SpecX == InitX /\ [][NextX]_vars

(***************************************************************************)
(* Plugin.sendAXFR of the plugin that cuts messages by record count        *)
(* (SpecOld).                                                              *)
(***************************************************************************)
\* node.config.int('axfr-chunk-length', 1500)
chunkLength == 2

\* sendAXFR from its call to the first await of the iterator
OldSendAXFR ==
  /\ old.pc = "init"
  /\ old' = IF refuses(rinfo)
              THEN [old EXCEPT !.pc = "refused", !.res = refuse]
              ELSE [old EXCEPT !.pc = "iter", !.answer = <<soa>>]
  /\ UNCHANGED <<qvars, wvars, vvars, xvars, cvars>>

\* iter.next() yields an entry: its records are decoded
OldNext ==
  /\ old.pc = "iter"
  /\ old.todo = <<>>
  /\ old.pos < Len(store)
  /\ LET ns == store[old.pos + 1] IN
       old' = [old EXCEPT !.pos = @ + 1,
                          !.todo = IF ~ns.data THEN <<>>
                                   ELSE filterSet(ns.zone, {RRSIG})]
  /\ UNCHANGED <<qvars, wvars, vvars, xvars, cvars>>

\* one record of the entry: res.answer.push(rr), and the message is
\* written when it holds more than chunkLength records
OldPush ==
  /\ old.pc = "iter"
  /\ old.todo # <<>>
  /\ LET answer == Append(old.answer, Head(old.todo)) IN
       old' = IF Len(answer) > chunkLength
                THEN [old EXCEPT !.todo = Tail(@), !.progress = @ + 1,
                                 !.sent = Append(@, answer), !.answer = <<>>]
                ELSE [old EXCEPT !.todo = Tail(@), !.progress = @ + 1,
                                 !.answer = answer]
  /\ UNCHANGED <<qvars, wvars, vvars, xvars, cvars>>

\* iter.next() finds no further entry: the last message is returned
OldReturn ==
  /\ old.pc = "iter"
  /\ old.todo = <<>>
  /\ old.pos = Len(store)
  /\ old' = [old EXCEPT !.pc = "done",
                        !.res = [code |-> NOERROR,
                                 answer |-> Append(old.answer, soa)],
                        !.answer = <<>>]
  /\ UNCHANGED <<qvars, wvars, vvars, xvars, cvars>>

InitOld ==
  /\ IdleQuery
  /\ IdleWriter
  /\ IdleValidator
  /\ rinfo \in [tcp : BOOLEAN, address : Addresses]
  /\ prefer = FALSE
  /\ store \in Stores
  /\ iter = 0
  /\ warn = <<>>
  /\ res = NoRes
  /\ cq = [p \in Sessions |-> IdleCq]
  /\ old = [IdleOld EXCEPT !.pc = "init"]

NextOld == OldSendAXFR \/ OldNext \/ OldPush \/ OldReturn

SpecOld == InitOld /\ [][NextOld]_vars

(***************************************************************************)
(* Properties of the transfer requester (Spec).                            *)
(***************************************************************************)
RECURSIVE Bytes(_)
Bytes(frames) ==
  IF frames = <<>> THEN <<>> ELSE Frame(Head(frames)) \o Bytes(Tail(frames))

\* the query after the whole stream arrived in a single 'data' event
OneChunk(id, frames) ==
  LET fresh == [NewQuery EXCEPT !.id = id, !.status = "open"] IN
  IF frames = <<>> THEN fresh ELSE read(fresh, Bytes(frames))

TransportErrors == {"Timed out", "socket error", "Closed unexpectedly"}

\* the messages are the decoded first frames of the current connection
FromConnection(msgs) ==
  /\ Len(msgs) <= Len(sent)
  /\ \A k \in 1..Len(msgs) : Len(sent[k]) > 0 /\ msgs[k] = Decode(sent[k])

ServerNumber(k) == Hosts[(k % cfg.n) + 1]

\* C1: reassembly is read-boundary-independent: once everything the server
\* sent has been consumed, however it was split into 'data' chunks, the
\* outcome (resolved, rejected, or still waiting for more) and the decoded
\* messages are those of delivering the same stream in one chunk.
C1_BoundaryIndependent ==
  (/\ qpc = "attempt"
   /\ q.status \in {"open", "resolved", "rejected"}
   /\ q.status = "open" => wire = <<>>
   /\ q.err \notin TransportErrors)
  => LET one == OneChunk(q.id, sent) IN
       /\ q.status = one.status
       /\ q.msgs = one.msgs

\* C2: on a fresh client, when the first k attempts fail and attempt k+1
\* succeeds, query returns the messages received from server number k mod n
\* and exactly k warnings were logged, the j-th naming server (j-1) mod n.
C2_Failover ==
  (qpc = "returned" /\ ~result.isNull)
  => LET k == Len(log) IN
       /\ k = i
       /\ k < maxAttempts
       /\ conn = ServerNumber(k)
       /\ FromConnection(result.msgs)
       /\ \A j \in 1..k : log[j] = ServerNumber(j - 1)

C2_Witness ==
  /\ qpc = "returned"
  /\ ~result.isNull
  /\ cfg.n = 3
  /\ Len(log) = 2
  /\ conn = Hosts[3]

\* C3: when every attempt fails, query makes exactly maxAttempts attempts,
\* attempt number i going to server i mod n with the cursor advanced by one
\* (wrapping) after each failure, then returns no data; the session then
\* fails with 'no zone data' and nothing was handed to the writer or written.
C3_Exhausted ==
  /\ qpc = "attempt"
     => /\ i < maxAttempts
        /\ Len(log) = i
        /\ index = i % cfg.n
        /\ conn = ServerNumber(i)
  /\ (qpc = "returned" /\ result.isNull)
     => /\ i = maxAttempts
        /\ Len(log) = maxAttempts
        /\ index = maxAttempts % cfg.n
        /\ \A j \in 1..Len(log) : log[j] = ServerNumber(j - 1)
  /\ (sess.pc \in {"failed", "transfer"} /\ ~cfg.disableMerge /\ result.isNull)
     => /\ sess = [pc |-> "failed", err |-> "no zone data"]
        /\ Len(log) = maxAttempts
        /\ transfer = NewWriter
        /\ submitted = <<>>
        /\ out = <<>>

C3_Witness ==
  /\ sess = [pc |-> "failed", err |-> "no zone data"]
  /\ cfg.n = 3
  /\ Len(log) = 6
  /\ index = 0

\* C4: a returned message list holds only messages of the connection of the
\* successful attempt, each with that attempt's transaction id and a
\* non-empty answer; it starts with SOA, ends with SOA, and no message
\* before the last ends with SOA.
C4_ReturnedList ==
  (qpc = "returned" /\ ~result.isNull)
  => LET msgs == result.msgs
         n == Len(msgs)
         lastType(m) == m.answer[Len(m.answer)].type
     IN /\ n > 0
        /\ FromConnection(msgs)
        /\ \A k \in 1..n : msgs[k].id = q.id /\ Len(msgs[k].answer) > 0
        /\ msgs[1].answer[1].type = SOA
        /\ lastType(msgs[n]) = SOA
        /\ \A k \in 1..(n - 1) : lastType(msgs[k]) # SOA

C4_Witness ==
  /\ qpc = "returned"
  /\ ~result.isNull
  /\ Len(result.msgs) = 2
  /\ Len(log) > 0

(***************************************************************************)
(* Properties of the validator (SpecV), stated on the input zone vin.      *)
(***************************************************************************)
ZoneOf == Flatten(vin)
OwnerNames == {r.name : r \in Range(ZoneOf)}
RRsAt(name) == SelectSeq(ZoneOf, LAMBDA r : r.name = name)
NsecsAt(name) == SelectSeq(RRsAt(name), LAMBDA r : r.type = NSEC)
NextOf(name) == NsecsAt(name)[1].nextDomain
IsDelegation(name) ==
  name # origin /\ \E r \in Range(RRsAt(name)) : r.type = NS
NsTargets == {r.ns : r \in {x \in Range(ZoneOf) : x.type = NS}}
AddressOnly(name) == \A r \in Range(RRsAt(name)) : r.type \in {A, AAAA}
ExpectedInput(name) ==
  IF IsDelegation(name) THEN SelectSeq(RRsAt(name), LAMBDA r : r.type # NS)
  ELSE RRsAt(name)

\* the names reached from S by following NSEC next-owner pointers
RECURSIVE ReachFrom(_)
ReachFrom(S) ==
  LET T == S \cup {NextOf(n) : n \in {m \in S \cap OwnerNames : Len(NsecsAt(m)) = 1}}
  IN IF T = S THEN S ELSE ReachFrom(T)

\* C5: any NSEC3 record in any input message makes verifyZone fail with the
\* bogus error 'NSEC3 not supported'; no Merge Result is returned.
C5_NSEC3Rejected ==
  (/\ vres.status # "none"
   /\ \E m \in 1..Len(vin) : \E k \in 1..Len(vin[m].answer) :
        vin[m].answer[k].type = NSEC3)
  => /\ vres.status = "bogus"
     /\ vres.err = "bogus: NSEC3 not supported"

C5_Witness ==
  /\ vres.status = "bogus"
  /\ Len(vin) = 2
  /\ Len(vin[2].answer) = 2
  /\ vin[2].answer[2].type = NSEC3
  /\ \A r \in Range(vin[1].answer) : r.sig

\* C6: a chain is returned only when the NSEC pointers followed from the
\* origin form one cycle: every name on it is an owner with exactly one NSEC
\* record, no name is pointed at twice, and the returned set is exactly the
\* set of names visited; a pointer to a missing owner, an owner without
\* exactly one NSEC record or a revisit of a name other than the origin is
\* reported as bogus at that name.
C6_NsecCycle ==
  /\ vres.status = "ok"
     => LET C == vres.nsecChain IN
          /\ origin \in C
          /\ \A n \in C : n \in OwnerNames /\ Len(NsecsAt(n)) = 1 /\ NextOf(n) \in C
          /\ \A a \in C : \A b \in C : NextOf(a) = NextOf(b) => a = b
          /\ C = ReachFrom({origin})
  /\ vres.err = "bogus: invalid data"
     => vres.errName \notin OwnerNames /\ vres.errName \in ReachFrom({origin})
  /\ vres.err = "bogus: NSEC must exist"
     => /\ vres.errName \in OwnerNames \cap ReachFrom({origin})
        /\ Len(NsecsAt(vres.errName)) # 1
  /\ vres.err = "bogus: bad NSEC chain"
     => vres.errName # origin /\ vres.errName \in ReachFrom({origin})

C6_Witness ==
  /\ vres.status = "ok"
  /\ vres.nsecChain = {origin, com}

\* C7 as stated: an owner is glue iff it is an NS target, its syntactic
\* parent (leftmost label stripped) is a delegation owner and all of its
\* records are A or AAAA.
C7_GlueBySyntacticParent ==
  vres.status = "ok"
  => \A name \in DOMAIN vres.names :
       name \in vres.glue
       <=> /\ name \in NsTargets
           /\ Len(name) > 0
           /\ Tail(name) \in OwnerNames
           /\ IsDelegation(Tail(name))
           /\ AddressOnly(name)

\* C7 amended: an owner is glue iff it is an NS target, the top-level name
\* above it (its last label) is a delegation owner and all of its records
\* are A or AAAA.
C7_GlueByTopLevel ==
  vres.status = "ok"
  => \A name \in DOMAIN vres.names :
       name \in vres.glue
       <=> /\ name \in NsTargets
           /\ Len(name) > 0
           /\ <<name[Len(name)]>> \in OwnerNames
           /\ IsDelegation(<<name[Len(name)]>>)
           /\ AddressOnly(name)

C7_Witness ==
  /\ vres.status = "ok"
  /\ aNicCom \in vres.glue
  /\ <<"nic", "com">> \notin OwnerNames

\* C8: the verifier is called for the owners in zone order, never for a glue
\* owner, each time with the owner's records without the NS set of a
\* delegation; a Merge Result is returned only if every non-glue owner was
\* accepted, and the first rejected owner is the one the bogus error names.
C8_VerifiedNonGlue ==
  LET calls == vres.calls
      accepted(c) == \A r \in Range(c.answer) : r.sig
  IN /\ \A k \in 1..Len(calls) :
          /\ calls[k].answer = ExpectedInput(calls[k].name)
          /\ calls[k].name \notin vres.glue
     /\ vres.status = "ok"
        => /\ {calls[k].name : k \in 1..Len(calls)} = OwnerNames \ vres.glue
           /\ \A k \in 1..Len(calls) : accepted(calls[k])
     /\ vres.err = "bogus: unable to validate zone data"
        => /\ Len(calls) > 0
           /\ calls[Len(calls)].name = vres.errName
           /\ ~accepted(calls[Len(calls)])
           /\ \A k \in 1..(Len(calls) - 1) : accepted(calls[k])

C8_Witness ==
  /\ vres.status = "ok"
  /\ vres.glue = {nsCom}
  /\ vres.names[com].delegation
  /\ {vres.calls[k].name : k \in 1..Len(vres.calls)} = {origin, com}

(***************************************************************************)
(* Properties of the MessageWriter (SpecW).                                *)
(***************************************************************************)
\* C9: the tracked size never exceeds the maximum message size: neither the
\* running size after a writeRR nor the size of a message handed to the
\* write callback is above 65535, whatever the sizes of the records.
C9_SizeBound ==
  /\ transfer.size <= MAX_MESSAGE_SIZE
  /\ \A k \in 1..Len(out) : out[k].size <= MAX_MESSAGE_SIZE

\* C10: while every write callback succeeds, the records of the messages
\* handed to the callback followed by the records still buffered are the
\* records submitted, in order, and their number is `written`; after a
\* flush nothing is buffered, so the emitted records are exactly the
\* submitted ones.
C10_NoLossNoDuplicate ==
  /\ [](~failed => /\ Flatten(out) \o transfer.answer = submitted
                   /\ transfer.written = Len(submitted))
  /\ [][(Flush /\ ~failed') => /\ Flatten(out') = submitted'
                               /\ Len(Flatten(out')) = transfer'.written]_vars

C10_Witness ==
  /\ ~failed
  /\ flushes > 0
  /\ transfer.answer = <<>>
  /\ Len(out) >= 2
  /\ Len(submitted) >= 3
  /\ transfer.written = Len(submitted)

\* C16: flush is a no-op when the buffer holds no record: no message with
\* an empty answer section is ever handed to the write callback, whether
\* flush is called before any writeRR, twice in a row, or from a writeRR
\* that meets an empty buffer.
C16_FlushNoOpOnEmpty ==
  \A k \in 1..Len(out) : Len(out[k].answer) > 0

(***************************************************************************)
(* The message ceiling of an attempt (Spec).                               *)
(***************************************************************************)
TooLargeRejected ==
  /\ qpc = "attempt"
  /\ q.status = "rejected"
  /\ q.err = "Transfer is too large"

\* C17: the list of completed messages of an attempt never holds more than
\* maxMessages messages; the frame that would be message maxMessages + 1
\* rejects the attempt with 'Transfer is too large' and is not accumulated;
\* the next step of the query handles this like any failed attempt: the
\* server is logged, the cursor advances with wrap-around and a new attempt
\* starts unless the attempt ceiling is reached.
C17_MessageCeiling ==
  /\ [](/\ Len(q.msgs) <= maxMessages
        /\ q.err = "Transfer is too large" =>
             q.status = "rejected" /\ Len(q.msgs) = maxMessages)
  /\ [][TooLargeRejected =>
          /\ log' = Append(log, server)
          /\ index' = (index + 1) % cfg.n
          /\ i' = i + 1
          /\ IF i + 1 < maxAttempts
               THEN /\ qpc' = "attempt"
                    /\ q' = NewQuery
                    /\ conn' = Hosts[index' + 1]
               ELSE /\ qpc' = "returned"
                    /\ result'.isNull]_vars

C17_Witness ==
  /\ TooLargeRejected
  /\ Len(q.msgs) = maxMessages
  /\ q.msgs[1].answer[1].type = SOA
  /\ i > 0
  /\ Len(log) = i

(***************************************************************************)
(* The type bitmaps of an accepted zone (SpecV).                           *)
(***************************************************************************)
\* C18: in every Merge Result returned by verifyZone, every type listed in
\* the bitmap of an NSEC record has a record of that type at the owner of
\* the NSEC record.
C18_BitmapTypesPresent ==
  vres.status = "ok" =>
    \A name \in DOMAIN vres.names :
      \A r \in Range(vres.names[name].rrs) :
        r.type = NSEC => \A t \in r.types : hasType(vres.names[name].rrs, t)

(***************************************************************************)
(* Properties of a transfer session of the merging plugin (SpecX).         *)
(***************************************************************************)
\* positions of a record in the sequence of records given to the writer
Pos(r) == {k \in 1..Len(submitted) : submitted[k] = r}

\* the records of a local entry that sendAXFR writes
LocalWritten(k) == SelectSeq(store[k].zone, LAMBDA r : r.type # RRSIG)

\* the records of an owner of the fetched zone that the external pass writes
ExternalWritten(name) ==
  SelectSeq(Flatten(vin), LAMBDA r : r.name = name /\ r.type \notin {NSEC, RRSIG})

\* the chain set of the Merge Result as sendAXFR first sees it
ChainSet == IF vres.status = "ok" THEN vres.nsecChain \ {origin} ELSE {}

InSession == sess.pc \in {"local", "external", "done"}

\* entries the local pass has gone through
Passed == IF sess.pc = "local" THEN iter ELSE Len(store)

\* C11: a message the write callback refuses is the last message written:
\* the session fails with 'unable to write message', writes nothing more
\* and never returns the final message; a session that returns the final
\* message has had every message accepted.
C11_WriteFailureFatal ==
  /\ [](/\ \A k \in 1..Len(out) :
             ~out[k].ok => /\ k = Len(out)
                           /\ failed
                           /\ sess.pc \in {"local", "external", "failed"}
                           /\ res = NoRes
        /\ sess.pc = "done" => /\ ~failed
                               /\ \A k \in 1..Len(out) : out[k].ok
                               /\ res.answer = <<soa>>
        /\ (failed /\ sess.pc = "failed") => sess.err = "unable to write message")
  /\ [][failed => /\ out' = out
                  /\ submitted' = submitted
                  /\ res' = res
                  /\ sess'.pc = "failed"]_vars

C11_Witness ==
  /\ sess.pc = "failed"
  /\ failed
  /\ sess.err = "unable to write message"
  /\ Len(out) >= 2
  /\ out[1].ok
  /\ ~out[Len(out)].ok
  /\ res = NoRes

\* C12: a completed session has written the SOA as the first record of the
\* first message, then the local and external records, has nothing left in
\* the writer's buffer, and returns a final message whose only record is
\* the SOA; before completion no final message exists.
C12_StreamOrder ==
  /\ sess.pc \in {"load", "local", "external", "failed"} => res = NoRes
  /\ InSession => submitted # <<>> /\ submitted[1] = soa
  /\ sess.pc = "done" =>
       /\ out # <<>>
       /\ out[1].answer # <<>>
       /\ out[1].answer[1] = soa
       /\ \A k \in 2..Len(submitted) : submitted[k] # soa
       /\ transfer.answer = <<>>
       /\ Flatten(out) = submitted
       /\ res = [code |-> NOERROR, answer |-> <<soa>>]

C12_Witness ==
  /\ sess.pc = "done"
  /\ vres.status = "ok"
  /\ Len(out) >= 2
  /\ \E k \in 1..Len(store) : \E r \in Range(LocalWritten(k)) : Pos(r) # {}
  /\ \E n \in ChainSet : \E r \in Range(ExternalWritten(n)) : Pos(r) # {}

\* the collision policy for the local entries K whose name is in the chain
\* set
CollisionPolicy(K) ==
  /\ \A k \in K :
       LET name == store[k].name
           loc == Range(LocalWritten(k))
           ext == Range(ExternalWritten(name))
       IN /\ ~prefer => \A r \in ext : Pos(r) = {}
          /\ prefer => \A r \in loc : Pos(r) = {}
          /\ (InSession /\ k <= Passed) =>
               /\ [name |-> name, preferICANN |-> prefer] \in Range(warn)
               /\ ~prefer => name \notin mergeDB.nsecChain
               /\ prefer => name \in mergeDB.nsecChain
          /\ sess.pc = "done" =>
               /\ ~prefer => \A r \in loc : Pos(r) # {}
               /\ prefer => \A r \in ext : Pos(r) # {}
  /\ \A k \in 1..Len(store) :
       ~(/\ \E r \in Range(LocalWritten(k)) : Pos(r) # {}
         /\ \E r \in Range(ExternalWritten(store[k].name)) : Pos(r) # {})

\* C13: for every name of the local store that is in the chain set of the
\* Merge Result: under prefer-local its local records are emitted, the name
\* leaves the chain set and its external records are never emitted; under
\* prefer-external no local record is emitted and the external records are;
\* a collision warning naming the policy is logged; no name is emitted from
\* both sources.
C13_CollisionPolicy ==
  CollisionPolicy({k \in 1..Len(store) : store[k].name \in ChainSet})

\* C13 for the names whose local entry holds resource data
C13_CollisionPolicyWithData ==
  CollisionPolicy({k \in 1..Len(store) :
                     store[k].name \in ChainSet /\ store[k].data})

C13_Witness ==
  /\ sess.pc = "done"
  /\ \E k \in 1..Len(store) :
       /\ store[k].name \in ChainSet
       /\ store[k].data
       /\ LocalWritten(k) # <<>>
       /\ ExternalWritten(store[k].name) # <<>>
       /\ Len(warn) >= 2

\* C14: a request that is not over TCP, or whose address is not in the
\* allow-list, returns a REFUSED message and does nothing else: no query
\* of the external zone, no step through the local store, no record given
\* to the writer and no message written.
C14_RefusalOnly ==
  (sess.pc # "init" /\ (~rinfo.tcp \/ rinfo.address \notin ipList)) =>
    /\ sess.pc = "refused"
    /\ res = [code |-> REFUSED, answer |-> <<>>]
    /\ qpc = "idle"
    /\ vres = NoResult
    /\ iter = 0
    /\ warn = <<>>
    /\ submitted = <<>>
    /\ transfer = NewWriter
    /\ out = <<>>

C14_Witness ==
  /\ sess.pc = "refused"
  /\ rinfo.tcp
  /\ rinfo.address \notin ipList
  /\ ~cfg.disableMerge
  /\ store # <<>>
  /\ res.code = REFUSED

\* NS records of chain owners of the fetched zone that point at a name
NsTo(g) ==
  {r \in Range(Flatten(vin)) : r.type = NS /\ r.ns = g /\ r.name \in ChainSet}

\* C19: the records of a glue owner are written at most once; when written,
\* the owner has left the glue set and the records come after the records
\* of the first written chain owner with an NS record to it, with nothing
\* but that owner's records and glue in between; at the end of a session
\* they are written exactly if some chain owner with an NS record to the
\* glue owner had its external records written.
C19_GlueOnce ==
  vres.status = "ok" =>
    \A g \in vres.glue :
      LET rrs == Range(vres.names[g].rrs) IN
      /\ \A r \in rrs : Cardinality(Pos(r)) <= 1
      /\ \A r \in rrs : \A p \in Pos(r) :
           /\ g \notin mergeDB.glue
           /\ \E n \in NsTo(g) : \E pn \in Pos(n) :
                /\ pn < p
                /\ \A m \in NsTo(g) : \A pm \in Pos(m) :
                     pm < p => m.name = n.name
                /\ \A j \in (pn + 1)..(p - 1) :
                     \/ submitted[j].name = n.name
                     \/ submitted[j].name \in vres.glue
      /\ sess.pc = "done" =>
           ((\E n \in NsTo(g) : Pos(n) # {}) <=> (\A r \in rrs : Pos(r) # {}))

C19_Witness ==
  /\ sess.pc = "done"
  /\ vres.glue = {nsCom}
  /\ Pos(xNsCom) # {}
  /\ Pos(xNsOrg) # {}
  /\ Cardinality(Pos(xGlueA)) = 1
  /\ Cardinality(Pos(xGlueAAAA)) = 1
  /\ nsCom \notin mergeDB.glue

(***************************************************************************)
(* Properties of concurrent sessions (SpecC).                              *)
(***************************************************************************)
\* C15: when two sessions run query on the same plugin instance, the
\* consecutive attempts of one query go to consecutive servers of the
\* configured list, wrapping, starting from the server of its first
\* attempt, whatever the other session does.
C15_OwnCursor ==
  \A p \in Sessions :
    \A j \in 1..Len(cq[p].trail) :
      cq[p].trail[j] = Hosts[((cq[p].start + j - 1) % cfg.n) + 1]

(***************************************************************************)
(* Properties of the plugin that cuts messages by record count (SpecOld).  *)
(***************************************************************************)
\* C20: no message written during a transfer has more than chunkLength
\* records in its answer section, the first message with the leading SOA
\* included.
C20_ChunkLengthIsMaximum ==
  \A k \in 1..Len(old.sent) : Len(old.sent[k]) <= chunkLength

(***************************************************************************)
(* Completeness of the accepted chain (SpecV) and of the merge (SpecX).    *)
(***************************************************************************)
\* C21: in every Merge Result returned by verifyZone, every owner of names
\* that is not in the glue set is a member of the returned chain set: a
\* zone with a validly signed owner that the NSEC walk from the origin
\* never reaches is rejected as bogus.
C21_ChainComplete ==
  vres.status = "ok" =>
    \A name \in DOMAIN vres.names :
      name \notin vres.glue => name \in vres.nsecChain

\* C22: in every completed session, every non-origin name of the chain set
\* of the Merge Result that has a record other than NSEC and RRSIG has at
\* least one record emitted, from the local store or from the external
\* zone, under either policy and whatever its local entry decodes to.
C22_NoNameLost ==
  sess.pc = "done" =>
    \A name \in ChainSet :
      ExternalWritten(name) # <<>> =>
        \E k \in 1..Len(submitted) : submitted[k].name = name
====
